---------------------------- MODULE Spec2Model ----------------------------
(***************************************************************************)
(* Model of the cross-check rustc plugin                                   *)
(* (cross-checks/rust-checks/rustc-plugin/src/lib.rs).                     *)
(*                                                                         *)
(* Three specifications share the module:                                  *)
(*   Spec       - the host expander invoking CrossCheckExpander::expand    *)
(*                once per #[cross_check] attribute, outermost first, on   *)
(*                a bounded family of item trees;                          *)
(*   SpecHash   - djb2_hash applied to growing byte strings;               *)
(*   SpecConfig - CrossCheckConfig::new applied to growing argument lists. *)
(*                                                                         *)
(* Strings that are hashed (identifiers, name = "...") are byte sequences. *)
(* A u32 is a record [hi, lo] of two 16-bit limbs (value hi * 2^16 + lo),  *)
(* because the model checker's integers are narrower than the 2^32 * 33    *)
(* the hash needs.  An Option<T> is a sequence: <<>> is None, <<v>> is     *)
(* Some(v).                                                                *)
(***************************************************************************)
EXTENDS Integers, Sequences, FiniteSets, TLC

VARIABLES
    tree,         \* the item tree the host expander holds (NoTree after a panic)
    input,        \* the tree as parsed, before any expansion (never changes)
    status,       \* "expanding" | "done" | "failed"
    xcheck_args,  \* cfg!(feature = "xcheck-args"), fixed at build time
    s,            \* SpecHash: the string hashed so far
    h,            \* SpecHash: djb2_hash(s)
    mi_items,     \* SpecConfig: the items of the #[cross_check(...)] list
    res           \* SpecConfig: CrossCheckConfig::new of that list

vars == <<tree, input, status, xcheck_args, s, h, mi_items, res>>

-----------------------------------------------------------------------------
(* Bounds of the model *)

MaxLen == 5
MaxArgs == 3
MaxParams == 2

-----------------------------------------------------------------------------
(* u32 arithmetic *)

Limb == 2^16

U32(hi, lo) == [hi |-> hi, lo |-> lo]

wrapping_mul(a, k) == U32((a.hi * k + (a.lo * k) \div Limb) % Limb, (a.lo * k) % Limb)

wrapping_add(a, c) == U32((a.hi + (a.lo + c) \div Limb) % Limb, (a.lo + c) % Limb)

djb2_seed == 5381

djb2_mult == 33

\* a variant of the step with another multiplier
djb2_step_mul31(acc, c) == wrapping_add(wrapping_mul(acc, 31), c)

djb2_step(acc, c) == wrapping_add(wrapping_mul(acc, djb2_mult), c)

RECURSIVE bytes_fold(_, _)
bytes_fold(acc, str) ==
    IF str = <<>> THEN acc
    ELSE bytes_fold(djb2_step(acc, Head(str)), Tail(str))

djb2_hash(str) == bytes_fold(U32(0, djb2_seed), str)

-----------------------------------------------------------------------------
(* Attributes and their arguments (ast::MetaItem, ast::NestedMetaItem) *)

None == <<>>
Some(v) == <<v>>

\* literals: a string, or a u128 integer kept as its part above 2^32 and its
\* low 32 bits
LitStr(str) == [t |-> "Str", str |-> str]
LitInt(top, v) == [t |-> "Int", top |-> top, v |-> v]

\* nested items of a list: a bare word, key = literal, or a literal alone
Word(n) == [meta |-> TRUE, name |-> n, kind |-> "Word"]
NameValue(n, lit) == [meta |-> TRUE, name |-> n, kind |-> "NameValue", lit |-> lit]
Literal(lit) == [meta |-> FALSE, lit |-> lit]

\* attributes
AttrWord(n) == [name |-> n, kind |-> "Word", items |-> <<>>]
AttrList(n, items) == [name |-> n, kind |-> "List", items |-> items]
AttrNameValue(n, lit) == [name |-> n, kind |-> "NameValue", items |-> <<>>, lit |-> lit]

\* item.value_str(): the string of a key = "string" item
value_str(item) ==
    IF item.kind = "NameValue" /\ item.lit.t = "Str" THEN Some(item.lit.str) ELSE None

\* id128.try_into(): u128 -> Result<u32, _>
try_into(lit) == IF lit.top = 0 THEN Some(lit.v) ELSE None

-----------------------------------------------------------------------------
(* CrossCheckConfig::new *)

ConfigDefault == [enabled |-> TRUE, name |-> None, id |-> None, panic |-> FALSE]

Panic(cfg) == [cfg EXCEPT !.panic = TRUE]

config_id(cfg, item) ==
    IF item.kind = "NameValue"
    THEN IF item.lit.t = "Int"
         THEN IF try_into(item.lit) # None
              THEN [cfg EXCEPT !.id = Some(try_into(item.lit)[1])]
              ELSE Panic(cfg)
         ELSE Panic(cfg)
    ELSE cfg

\* a variant of config_item that lets what it cannot read pass
config_item_lenient(cfg, nested_item) ==
    IF ~nested_item.meta THEN cfg
    ELSE IF nested_item.name \in {"never", "disable", "no"} THEN [cfg EXCEPT !.enabled = FALSE]
    ELSE IF nested_item.name \in {"always", "enable", "yes"} THEN [cfg EXCEPT !.enabled = TRUE]
    ELSE IF nested_item.name = "name" THEN [cfg EXCEPT !.name = value_str(nested_item)]
    ELSE IF nested_item.name = "id" /\ nested_item.kind = "NameValue" /\ nested_item.lit.t = "Int"
         THEN [cfg EXCEPT !.id = Some(nested_item.lit.v)]
    ELSE cfg

\* a variant of config_item in which the first name = stays
config_item_firstwins(cfg, nested_item) ==
    IF ~nested_item.meta THEN cfg
    ELSE IF nested_item.name \in {"never", "disable", "no"} THEN [cfg EXCEPT !.enabled = FALSE]
    ELSE IF nested_item.name \in {"always", "enable", "yes"} THEN [cfg EXCEPT !.enabled = TRUE]
    ELSE IF nested_item.name = "name"
         THEN IF cfg.name = None THEN [cfg EXCEPT !.name = value_str(nested_item)] ELSE cfg
    ELSE IF nested_item.name = "id" THEN config_id(cfg, nested_item)
    ELSE Panic(cfg)

\* one iteration of the loop over the list's items; a panic ends the loop
config_item(cfg, nested_item) ==
    IF ~nested_item.meta THEN cfg
    ELSE IF nested_item.name \in {"never", "disable", "no"} THEN [cfg EXCEPT !.enabled = FALSE]
    ELSE IF nested_item.name \in {"always", "enable", "yes"} THEN [cfg EXCEPT !.enabled = TRUE]
    ELSE IF nested_item.name = "name" THEN [cfg EXCEPT !.name = value_str(nested_item)]
    ELSE IF nested_item.name = "id" THEN config_id(cfg, nested_item)
    ELSE Panic(cfg)

RECURSIVE config_items(_, _)
config_items(cfg, items) ==
    IF items = <<>> \/ cfg.panic THEN cfg
    ELSE config_items(config_item(cfg, Head(items)), Tail(items))

CrossCheckConfig_new(mi) ==
    IF mi.kind = "Word" THEN ConfigDefault
    ELSE IF mi.kind = "List" THEN config_items(ConfigDefault, mi.items)
    ELSE Panic(ConfigDefault)

-----------------------------------------------------------------------------
(* The item tree (ast::Item, ast::Block, ast::Stmt, ast::Arg) *)

NoTree == [kind |-> "None"]

Item(kind, ident, attrs, inputs, block, items) ==
    [kind |-> kind, ident |-> ident, attrs |-> attrs,
     inputs |-> inputs, block |-> block, items |-> items]

\* fn_decl.inputs: each argument has a pattern
PatIdent(ident) == [pat |-> [kind |-> "Ident", ident |-> ident]]
PatTuple == [pat |-> [kind |-> "Tuple"]]

\* statements of a block
Expr(n) == [kind |-> "Expr", n |-> n]
ItemStmt(item) == [kind |-> "Item", item |-> item]
Block(stmts) == [kind |-> "Block", stmts |-> stmts]
\* cross_check_raw!(<tag>, <val>);
Mac(tag, val) == [kind |-> "Mac", tag |-> tag, val |-> val]
\* cross_check_runtime::xcheck::xcheck(<tag>, XCheckHash::xcheck_hash(&<ident>));
XCheck(tag, ident) == [kind |-> "XCheck", tag |-> tag, ident |-> ident]
\* unimplemented!() reached while the item was being built
Unimplemented == [kind |-> "Unimplemented"]

DeriveXCheckHash == AttrList("derive", <<Word("XCheckHash")>>)

-----------------------------------------------------------------------------
(* CrossChecker: the Folder *)

is_cross_check(attr) == attr.name = "cross_check"

\* a variant of the test below that sees no attribute
has_cross_check_attr_never(item) == FALSE

\* item.attrs.iter().any(|attr| attr.name() == "cross_check")
has_cross_check_attr(item) == \E i \in 1..Len(item.attrs) : is_cross_check(item.attrs[i])

\* a variant of check_id that asks for the name first
check_id_name_first(config, fn_ident) ==
    IF config.name # None THEN djb2_hash(config.name[1])
    ELSE IF config.id # None THEN config.id[1]
    ELSE djb2_hash(fn_ident)

check_id(config, fn_ident) ==
    IF config.id # None THEN config.id[1]
    ELSE IF config.name # None THEN djb2_hash(config.name[1])
    ELSE djb2_hash(fn_ident)

\* the block pushed for one argument, or unimplemented!()
arg_xcheck(arg) ==
    IF arg.pat.kind = "Ident"
    THEN <<Block(<<XCheck("FUNCTION_ARG_TAG", arg.pat.ident)>>)>>
    ELSE <<Unimplemented>>

RECURSIVE arg_xchecks_of(_)
arg_xchecks_of(inputs) ==
    IF inputs = <<>> THEN <<>>
    ELSE arg_xcheck(Head(inputs)) \o arg_xchecks_of(Tail(inputs))

arg_xchecks(inputs) == IF xcheck_args THEN arg_xchecks_of(inputs) ELSE <<>>

\* a variant of checked_block with the argument checks before the entry call
checked_block_args_first(id, xchecks, block) ==
    xchecks \o <<Mac("FUNCTION_CALL_TAG", id)>> \o <<Block(block)>>

\* quote_block!({ cross_check_raw!(FUNCTION_CALL_TAG, $check_id); $arg_xchecks $block })
checked_block(id, xchecks, block) ==
    <<Mac("FUNCTION_CALL_TAG", id)>> \o xchecks \o <<Block(block)>>

\* item_attrs.push(#[derive(XCheckHash)])
derive_attrs(attrs) == Append(attrs, DeriveXCheckHash)

RECURSIVE fold_item(_, _)
RECURSIVE fold_block(_, _)

\* fold::noop_fold_stmt; macro invocations go through fold_mac, which keeps them
fold_stmt(stmt, config) ==
    IF stmt.kind = "Item" THEN ItemStmt(fold_item(stmt.item, config))
    ELSE IF stmt.kind = "Block" THEN Block(fold_block(stmt.stmts, config))
    ELSE stmt

fold_block(block, config) ==
    [i \in 1..Len(block) |-> fold_stmt(block[i], config)]

\* fold::noop_fold_item_simple(item, self): the item is kept, its children are
\* folded by the same folder
noop_fold_item_simple(item, config) ==
    IF item.kind = "Mod"
    THEN [item EXCEPT !.items = [i \in 1..Len(item.items) |-> fold_item(item.items[i], config)]]
    ELSE IF item.kind = "Fn"
    THEN [item EXCEPT !.block = fold_block(item.block, config)]
    ELSE item

fold_item_simple(item, config) ==
    IF ~config.enabled THEN noop_fold_item_simple(item, config)
    ELSE IF has_cross_check_attr(item) THEN noop_fold_item_simple(item, config)
    ELSE IF item.kind = "Fn"
    THEN [item EXCEPT !.block =
            checked_block(check_id(config, item.ident),
                          arg_xchecks(item.inputs),
                          fold_block(item.block, config))]
    ELSE IF item.kind \in {"Enum", "Struct", "Union"}
    THEN [item EXCEPT !.attrs = derive_attrs(item.attrs)]
    ELSE noop_fold_item_simple(item, config)

fold_item(item, config) == fold_item_simple(item, config)

\* whether building the item panicked (unimplemented!())
RECURSIVE item_panicked(_)
RECURSIVE block_panicked(_)
block_panicked(block) ==
    \E i \in 1..Len(block) :
        \/ block[i].kind = "Unimplemented"
        \/ block[i].kind = "Block" /\ block_panicked(block[i].stmts)
        \/ block[i].kind = "Item" /\ item_panicked(block[i].item)

item_panicked(item) ==
    \/ block_panicked(item.block)
    \/ \E i \in 1..Len(item.items) : item_panicked(item.items[i])

-----------------------------------------------------------------------------
(* CrossCheckExpander::expand, as the host's expander drives it: the first      *)
(* item in document order that carries a cross_check attribute and lies in no  *)
(* other such item is handed to expand, with that attribute taken off.         *)

\* the host's test for an item that invokes the cross_check extension
is_invocation(item) == \E i \in 1..Len(item.attrs) : is_cross_check(item.attrs[i])

first_cross_check(attrs) ==
    CHOOSE i \in 1..Len(attrs) :
        /\ is_cross_check(attrs[i])
        /\ \A j \in 1..(i - 1) : ~is_cross_check(attrs[j])

remove_attr(attrs, i) == SubSeq(attrs, 1, i - 1) \o SubSeq(attrs, i + 1, Len(attrs))

RECURSIVE has_invocation(_)
RECURSIVE block_has_invocation(_)
block_has_invocation(block) ==
    \E i \in 1..Len(block) :
        \/ block[i].kind = "Block" /\ block_has_invocation(block[i].stmts)
        \/ block[i].kind = "Item" /\ has_invocation(block[i].item)

has_invocation(item) ==
    \/ is_invocation(item)
    \/ block_has_invocation(item.block)
    \/ \E i \in 1..Len(item.items) : has_invocation(item.items[i])

\* the item of the next invocation
RECURSIVE next_invocation(_)
RECURSIVE block_next_invocation(_)
block_next_invocation(block) ==
    LET i == CHOOSE k \in 1..Len(block) :
                /\ block_has_invocation(<<block[k]>>)
                /\ \A j \in 1..(k - 1) : ~block_has_invocation(<<block[j]>>)
    IN  IF block[i].kind = "Block" THEN block_next_invocation(block[i].stmts)
        ELSE next_invocation(block[i].item)

next_invocation(item) ==
    IF is_invocation(item) THEN item
    ELSE IF block_has_invocation(item.block) THEN block_next_invocation(item.block)
    ELSE LET i == CHOOSE k \in 1..Len(item.items) :
                    /\ has_invocation(item.items[k])
                    /\ \A j \in 1..(k - 1) : ~has_invocation(item.items[j])
         IN  next_invocation(item.items[i])

invocation_attr(item) == item.attrs[first_cross_check(item.attrs)]

invocation_item(item) ==
    [item EXCEPT !.attrs = remove_attr(item.attrs, first_cross_check(item.attrs))]

\* expand(cx, sp, mi, item): the replacement item
expand(mi, item) == fold_item(item, CrossCheckConfig_new(mi))

expand_panics(mi, item) ==
    \/ CrossCheckConfig_new(mi).panic
    \/ item_panicked(expand(mi, item))

\* the tree with the next invocation's item replaced by its expansion
RECURSIVE splice(_)
RECURSIVE block_splice(_)
block_splice(block) ==
    LET i == CHOOSE k \in 1..Len(block) :
                /\ block_has_invocation(<<block[k]>>)
                /\ \A j \in 1..(k - 1) : ~block_has_invocation(<<block[j]>>)
    IN  [block EXCEPT ![i] =
            IF block[i].kind = "Block" THEN Block(block_splice(block[i].stmts))
            ELSE ItemStmt(splice(block[i].item))]

splice(item) ==
    IF is_invocation(item) THEN expand(invocation_attr(item), invocation_item(item))
    ELSE IF block_has_invocation(item.block)
    THEN [item EXCEPT !.block = block_splice(item.block)]
    ELSE LET i == CHOOSE k \in 1..Len(item.items) :
                    /\ has_invocation(item.items[k])
                    /\ \A j \in 1..(k - 1) : ~has_invocation(item.items[j])
         IN  [item EXCEPT !.items[i] = splice(item.items[i])]

-----------------------------------------------------------------------------
(* Spec: the input trees *)

id_f == <<102>>
id_g == <<103>>
id_h == <<104>>
id_s == <<115>>
id_t == <<116>>
id_c == <<99>>
id_m0 == <<109, 48>>
id_m1 == <<109, 49>>
str_x == <<120>>
str_y == <<121>>

CC(items) == AttrList("cross_check", items)
ReprC == AttrList("repr", <<Word("C")>>)

FnAnnots ==
    { <<>>,
      <<AttrWord("cross_check")>>,
      <<CC(<<Word("no")>>)>>,
      <<CC(<<NameValue("id", LitInt(0, U32(0, 7)))>>)>>,
      <<CC(<<NameValue("name", LitStr(str_x))>>)>>,
      <<CC(<<NameValue("name", LitStr(str_x)), NameValue("id", LitInt(0, U32(0, 7)))>>)>>,
      <<CC(<<Word("frobnicate")>>)>>,
      <<CC(<<NameValue("id", LitInt(1, U32(0, 0)))>>)>>,
      <<AttrNameValue("cross_check", LitStr(str_x))>> }

ScopeAnnots ==
    { <<>>,
      <<AttrWord("cross_check")>>,
      <<CC(<<Word("never")>>)>>,
      <<CC(<<NameValue("id", LitInt(0, U32(0, 9)))>>)>>,
      <<CC(<<NameValue("name", LitStr(str_y))>>)>> }

InnerAnnots == { <<>>, <<AttrWord("cross_check")>>, <<CC(<<Word("disable")>>)>> }

\* the parameters a, b, ... of a function, the last one possibly a tuple pattern
ParamIdents(n) == [i \in 1..n |-> PatIdent(<<96 + i>>)]

ParamLists ==
    { ParamIdents(n) : n \in 0..MaxParams }
        \cup { [ParamIdents(n) EXCEPT ![n] = PatTuple] : n \in 1..MaxParams }

Fn(ident, attrs, inputs, block) == Item("Fn", ident, attrs, inputs, block, <<>>)
DataType(kind, ident, attrs) == Item(kind, ident, attrs, <<>>, <<>>, <<>>)
Mod(ident, attrs, items) == Item("Mod", ident, attrs, <<>>, <<>>, items)

InnerFns == { Fn(id_g, a, <<>>, <<Expr(1)>>) : a \in InnerAnnots }

FirstItems ==
    { Fn(id_f, a, ps, <<Expr(0)>>) : a \in FnAnnots, ps \in ParamLists }
        \cup { Fn(id_f, a, ParamIdents(1), <<ItemStmt(g), Expr(0)>>) :
                 a \in ScopeAnnots \ { <<CC(<<NameValue("name", LitStr(str_y))>>)>> },
                 g \in InnerFns }
        \cup { DataType("Struct", id_s, a) :
                 a \in { <<>>, <<ReprC>>, <<AttrWord("cross_check")>>,
                         <<AttrWord("cross_check"), ReprC>>, <<ReprC, CC(<<Word("no")>>)>> } }
        \cup { DataType("Enum", id_s, <<>>), DataType("Union", id_s, <<ReprC>>) }
        \cup { Item("Other", id_c, a, <<>>, <<>>, <<>>) : a \in InnerAnnots }

SecondItems ==
    { <<>>,
      <<Fn(id_h, <<>>, <<>>, <<Expr(2)>>)>>,
      <<DataType("Struct", id_t, <<ReprC>>)>> }

Groups == { <<first>> \o second : first \in FirstItems, second \in SecondItems }

InputTrees ==
    { Mod(id_m0, a0, g) : a0 \in ScopeAnnots, g \in Groups }
        \cup { Mod(id_m0, a0, <<Mod(id_m1, a1, g)>>) :
                 a0 \in ScopeAnnots, a1 \in ScopeAnnots, g \in Groups }

-----------------------------------------------------------------------------
(* Spec: the host expands every cross_check attribute, outermost first *)

InitPure ==
    /\ s = <<>>
    /\ h = djb2_hash(<<>>)
    /\ mi_items = <<>>
    /\ res = ConfigDefault

Init ==
    /\ input \in InputTrees
    /\ tree = input
    /\ status = "expanding"
    /\ xcheck_args \in BOOLEAN
    /\ InitPure

\* one call of CrossCheckExpander::expand; a panic ends the compilation
Expand ==
    /\ status = "expanding"
    /\ has_invocation(tree)
    /\ LET it == next_invocation(tree)
       IN  IF expand_panics(invocation_attr(it), invocation_item(it))
           THEN /\ tree' = NoTree
                /\ status' = "failed"
           ELSE /\ tree' = splice(tree)
                /\ status' = "expanding"
    /\ UNCHANGED <<input, xcheck_args, s, h, mi_items, res>>

\* no attribute is left: the expanded tree is the output
Finish ==
    /\ status = "expanding"
    /\ ~has_invocation(tree)
    /\ status' = "done"
    /\ UNCHANGED <<tree, input, xcheck_args, s, h, mi_items, res>>

Next == Expand \/ Finish

Spec == Init /\ [][Next]_vars

-----------------------------------------------------------------------------
(* SpecHash: djb2_hash on every byte string of at most MaxLen bytes *)

Bytes == {0, 102, 111, 255}

InitTreeIdle ==
    /\ tree = NoTree
    /\ input = NoTree
    /\ status = "done"
    /\ xcheck_args = FALSE

InitHash ==
    /\ s = <<>>
    /\ h = djb2_hash(<<>>)
    /\ mi_items = <<>>
    /\ res = ConfigDefault
    /\ InitTreeIdle

HashByte ==
    /\ Len(s) < MaxLen
    /\ \E b \in Bytes :
        /\ s' = Append(s, b)
        /\ h' = djb2_hash(Append(s, b))
    /\ UNCHANGED <<tree, input, status, xcheck_args, mi_items, res>>

NextHash == HashByte

SpecHash == InitHash /\ [][NextHash]_vars

-----------------------------------------------------------------------------
(* SpecConfig: CrossCheckConfig::new on every list of at most MaxArgs items *)

ArgPool ==
    { Word("never"), Word("disable"), Word("no"),
      Word("always"), Word("enable"), Word("yes"),
      NameValue("name", LitStr(<<120>>)), NameValue("name", LitStr(<<>>)),
      NameValue("id", LitInt(0, U32(0, 7))), NameValue("id", LitInt(0, U32(65535, 65535))),
      NameValue("id", LitInt(1, U32(0, 0))),
      Word("frobnicate"), Word("name"), Word("id"),
      NameValue("id", LitStr(<<55>>)), Literal(LitStr(<<120>>)) }

InitConfig ==
    /\ mi_items = <<>>
    /\ res = CrossCheckConfig_new(AttrWord("cross_check"))
    /\ s = <<>>
    /\ h = djb2_hash(<<>>)
    /\ InitTreeIdle

ResolveItem ==
    /\ Len(mi_items) < MaxArgs
    /\ \E a \in ArgPool :
        /\ mi_items' = Append(mi_items, a)
        /\ res' = CrossCheckConfig_new(AttrList("cross_check", Append(mi_items, a)))
    /\ UNCHANGED <<tree, input, status, xcheck_args, s, h>>

NextConfig == ResolveItem

SpecConfig == InitConfig /\ [][NextConfig]_vars

-----------------------------------------------------------------------------
(* Reading trees: what the properties below are stated with *)

RECURSIVE BlockItems(_)
BlockItems(block) ==
    UNION { IF block[i].kind = "Item" THEN {block[i].item}
            ELSE IF block[i].kind = "Block" THEN BlockItems(block[i].stmts)
            ELSE {} : i \in 1..Len(block) }

Children(item) == { item.items[i] : i \in 1..Len(item.items) } \cup BlockItems(item.block)

\* every declaration of a tree with its enclosing declarations, outermost first
RECURSIVE Walk(_, _)
Walk(item, anc) ==
    {[item |-> item, anc |-> anc]}
        \cup UNION { Walk(child, Append(anc, item)) : child \in Children(item) }

Decls(t) == IF t = NoTree THEN {} ELSE Walk(t, <<>>)

Fns(t) == { c.item : c \in { d \in Decls(t) : d.item.kind = "Fn" } }

DeclOf(t, ident) == CHOOSE it \in { c.item : c \in Decls(t) } : it.ident = ident

\* the entry calls of a function body, outermost first: those of nested
\* functions are not the function's own
RECURSIVE EntryIds(_)
EntryIds(block) ==
    IF block = <<>> THEN <<>>
    ELSE (IF Head(block).kind = "Mac" /\ Head(block).tag = "FUNCTION_CALL_TAG"
            THEN <<Head(block).val>>
          ELSE IF Head(block).kind = "Block" THEN EntryIds(Head(block).stmts)
          ELSE <<>>) \o EntryIds(Tail(block))

\* a body with each nested declaration reduced to its name
RECURSIVE Shape(_)
Shape(block) ==
    [i \in 1..Len(block) |->
        IF block[i].kind = "Item" THEN [kind |-> "Item", ident |-> block[i].item.ident]
        ELSE IF block[i].kind = "Block" THEN Block(Shape(block[i].stmts))
        ELSE block[i]]

Annotated(item) == \E i \in 1..Len(item.attrs) : item.attrs[i].name = "cross_check"

AnnotationOf(item) ==
    item.attrs[CHOOSE i \in 1..Len(item.attrs) :
                  /\ item.attrs[i].name = "cross_check"
                  /\ \A j \in 1..(i - 1) : item.attrs[j].name # "cross_check"]

OwnConfig(item) == CrossCheckConfig_new(AnnotationOf(item))

Enabling(item) == Annotated(item) /\ OwnConfig(item).enabled /\ ~OwnConfig(item).panic

\* the attributes other than cross_check, in their order
RECURSIVE OtherAttrs(_)
OtherAttrs(attrs) ==
    IF attrs = <<>> THEN <<>>
    ELSE (IF Head(attrs).name = "cross_check" THEN <<>> ELSE <<Head(attrs)>>)
            \o OtherAttrs(Tail(attrs))

\* the innermost enclosing declaration that is annotated, if any
AnnotatedAncestors(c) == { i \in 1..Len(c.anc) : Annotated(c.anc[i]) }

Max(S) == CHOOSE x \in S : \A y \in S : y <= x

NearestScope(c) == c.anc[Max(AnnotatedAncestors(c))]

\* derive(), computed bytewise: (33 * v + b) mod 2^32 on four base-256 digits
Digits(u) == <<u.lo % 256, u.lo \div 256, u.hi % 256, u.hi \div 256>>

RefStep(d, b) ==
    LET x1 == d[1] * 33 + b
        x2 == d[2] * 33 + x1 \div 256
        x3 == d[3] * 33 + x2 \div 256
        x4 == d[4] * 33 + x3 \div 256
    IN  <<x1 % 256, x2 % 256, x3 % 256, x4 % 256>>

\* the identifier the design prescribes for a configuration and a function name
ExpectedId(cfg, ident) ==
    IF cfg.id # None THEN cfg.id[1]
    ELSE IF cfg.name # None THEN djb2_hash(cfg.name[1])
    ELSE djb2_hash(ident)

\* a step of the expander that produced a tree
Expanded == status = "expanding" /\ tree # NoTree /\ tree' # NoTree /\ tree' # tree

PassConfig == OwnConfig(next_invocation(tree))

\* the functions a step instrumented: they gained one entry call
Instrumented(d) ==
    /\ d \in Fns(tree')
    /\ Len(EntryIds(d.block)) = Len(EntryIds(DeclOf(tree, d.ident).block)) + 1

-----------------------------------------------------------------------------
(* C1: in every pass, the entry call of every function the pass instruments   *)
(* carries config.id when the pass's configuration has an id (also when it    *)
(* has a name too), else derive(config.name) when it has a name, else         *)
(* derive(the function's identifier).                                         *)

C1_CheckIdPrecedence ==
    [][Expanded =>
        \A d \in Fns(tree') :
            Instrumented(d) =>
                d.block[1] = Mac("FUNCTION_CALL_TAG", ExpectedId(PassConfig, d.ident))]_vars

C1_Witness ==
    /\ status = "done"
    /\ Len(input.items) = 1
    /\ input.items[1].ident = id_f
    /\ Annotated(input.items[1])
    /\ OwnConfig(input.items[1]).id = Some(U32(0, 7))
    /\ OwnConfig(input.items[1]).name = Some(str_x)
    /\ tree.items[1].block[1] = Mac("FUNCTION_CALL_TAG", U32(0, 7))

-----------------------------------------------------------------------------
UnderEnablingScope(c) == \E i \in 1..Len(c.anc) : Enabling(c.anc[i])

(* C2: a function with its own annotation, inside a scope with an enabling    *)
(* annotation, has after all passes exactly one entry call, whose identifier  *)
(* comes from the function's own configuration.                               *)

\* C2 as claimed: for every own annotation, the function has exactly one entry
\* call, with the identifier of its own configuration
C2_Original ==
    status = "done" =>
        \A c \in Decls(input) :
            (c.item.kind = "Fn" /\ Annotated(c.item) /\ UnderEnablingScope(c)) =>
                EntryIds(DeclOf(tree, c.item.ident).block)
                    = <<ExpectedId(OwnConfig(c.item), c.item.ident)>>

\* C2 as amended: for every own annotation that is enabling, the function has
\* exactly one entry call, with the identifier of its own configuration
C2_OwnAnnotationOnce ==
    status = "done" =>
        \A c \in Decls(input) :
            (c.item.kind = "Fn" /\ Enabling(c.item) /\ UnderEnablingScope(c)) =>
                EntryIds(DeclOf(tree, c.item.ident).block)
                    = <<ExpectedId(OwnConfig(c.item), c.item.ident)>>

C2_Witness ==
    /\ status = "done"
    /\ Enabling(input)
    /\ OwnConfig(input).id = Some(U32(0, 9))
    /\ Len(input.items) = 1
    /\ input.items[1].ident = id_f
    /\ Enabling(input.items[1])
    /\ OwnConfig(input.items[1]).id = Some(U32(0, 7))
    /\ EntryIds(tree.items[1].block) = <<U32(0, 7)>>

-----------------------------------------------------------------------------
(* C3: after any sequence of passes every function holds at most one entry    *)
(* call (an instrumented function is inert to further passes).                *)

C3_AtMostOneEntryCall ==
    \A d \in Fns(tree) : Len(EntryIds(d.block)) <= 1

-----------------------------------------------------------------------------
IsDataType(item) == item.kind \in {"Struct", "Enum", "Union"}

EffectivelyEnabled(c) ==
    IF Annotated(c.item) THEN Enabling(c.item)
    ELSE AnnotatedAncestors(c) # {} /\ Enabling(NearestScope(c))

(* C4: every struct, enum or union whose nearest annotation (its own or an    *)
(* enclosing scope's) is enabling ends with its pre-existing attributes, in   *)
(* their order, followed by exactly one hash-derivation marker.               *)

C4_ExactlyOneMarker ==
    status = "done" =>
        \A c \in Decls(input) :
            (IsDataType(c.item) /\ EffectivelyEnabled(c)) =>
                DeclOf(tree, c.item.ident).attrs
                    = Append(OtherAttrs(c.item.attrs), DeriveXCheckHash)

-----------------------------------------------------------------------------
NothingElseAnnotated(item) ==
    \A c \in Walk(item, <<>>) : c.item = item \/ ~Annotated(c.item)

(* C5: a declaration whose own annotation is disabling, and in which nothing  *)
(* else is annotated, is after all passes its input form (less the consumed   *)
(* annotation), also inside a scope with an enabling annotation.              *)

C5_DisabledIsUnchanged ==
    status = "done" =>
        \A c \in Decls(input) :
            (Annotated(c.item) /\ ~OwnConfig(c.item).enabled /\ NothingElseAnnotated(c.item)) =>
                DeclOf(tree, c.item.ident)
                    = [c.item EXCEPT !.attrs = OtherAttrs(c.item.attrs)]

-----------------------------------------------------------------------------
ArgCalls(d) == IF xcheck_args THEN Len(d.inputs) ELSE 0

(* C6: in every pass, the body of every function the pass instruments is one  *)
(* FUNCTION_CALL_TAG entry call, then (with per-argument checks) one          *)
(* FUNCTION_ARG_TAG call per parameter in declared order, then the body the   *)
(* function had, with its nested declarations transformed in place.           *)

C6_BodyOrder ==
    [][Expanded =>
        \A d \in Fns(tree') :
            Instrumented(d) =>
                /\ Len(d.block) = 1 + ArgCalls(d) + 1
                /\ d.block[1].kind = "Mac"
                /\ d.block[1].tag = "FUNCTION_CALL_TAG"
                /\ \A i \in 1..ArgCalls(d) :
                        d.block[1 + i]
                            = Block(<<XCheck("FUNCTION_ARG_TAG", d.inputs[i].pat.ident)>>)
                /\ d.block[Len(d.block)].kind = "Block"
                /\ Shape(d.block[Len(d.block)].stmts) = Shape(DeclOf(tree, d.ident).block)]_vars

C6_Witness ==
    /\ status = "done"
    /\ xcheck_args
    /\ Len(input.items) = 1
    /\ input.items[1].kind = "Fn"
    /\ Len(input.items[1].inputs) = 2
    /\ tree.items[1].block
        = << Mac("FUNCTION_CALL_TAG", djb2_hash(id_f)),
             Block(<<XCheck("FUNCTION_ARG_TAG", <<97>>)>>),
             Block(<<XCheck("FUNCTION_ARG_TAG", <<98>>)>>),
             Block(<<Expr(0)>>) >>

-----------------------------------------------------------------------------
Keywords == {"never", "disable", "no", "always", "enable", "yes", "name", "id"}

BadItem(a) ==
    /\ a.meta
    /\ \/ a.name \notin Keywords
       \/ a.name = "id" /\ a.kind = "NameValue" /\ a.lit.t = "Int" /\ a.lit.top > 0

BadAnnotation(mi) == \E i \in 1..Len(mi.items) : BadItem(mi.items[i])

BadParameter(item) ==
    \E c \in Walk(item, <<>>) :
        /\ c.item.kind = "Fn"
        /\ c.item = item \/ ~Annotated(c.item)
        /\ \E i \in 1..Len(c.item.inputs) : c.item.inputs[i].pat.kind # "Ident"

MustFail ==
    LET it == next_invocation(tree)
        mi == AnnotationOf(it)
    IN  \/ BadAnnotation(mi)
        \/ /\ xcheck_args
           /\ ~OwnConfig(it).panic
           /\ OwnConfig(it).enabled
           /\ BadParameter([it EXCEPT !.attrs = OtherAttrs(it.attrs)])

(* C7: a pass ends with a complete tree or, failed, with none; and it fails   *)
(* whenever its annotation has an unrecognized keyword or an id above         *)
(* 2^32 - 1, or, with per-argument checks, a function it instruments has a    *)
(* parameter that is not a simple name.                                       *)

C7_FailureHasNoOutput ==
    [][/\ status' = "failed" <=> tree' = NoTree
       /\ tree' # NoTree => ~item_panicked(tree')
       /\ (status = "expanding" /\ has_invocation(tree) /\ MustFail) => status' = "failed"]_vars

C7_Witness ==
    /\ status = "failed"
    /\ tree = NoTree
    /\ Annotated(input)
    /\ AnnotationOf(input) = AttrWord("cross_check")
    /\ Len(input.items) = 1
    /\ Annotated(input.items[1])
    /\ BadAnnotation(AnnotationOf(input.items[1]))

-----------------------------------------------------------------------------
InU32(u) == u.hi \in 0..(2^16 - 1) /\ u.lo \in 0..(2^16 - 1)

(* C8: derive starts from 5381 and takes each byte b in order by              *)
(* h := (h * 33 + b) mod 2^32; its value lies in 0 .. 2^32 - 1; derive of the *)
(* empty string is 5381.                                                      *)

C8_Djb2 ==
    [][/\ s = <<>> => h = U32(0, 5381)
       /\ InU32(h')
       /\ Digits(h') = RefStep(Digits(h), s'[Len(s')])
       /\ s' = <<102, 111, 111>> => h' = U32(2952, 29577)]_vars

C8_Witness ==
    /\ s = <<255, 255, 255, 255, 255>>
    /\ h = U32(6805, 39904)

-----------------------------------------------------------------------------
(* C9: a function without an annotation, whose nearest annotated scope is     *)
(* enabling, gets derive(its own identifier) as its Check Identifier,         *)
(* whatever name or id the scope's annotation carries.                        *)

C9_DefaultConfigUnderScope ==
    status = "done" =>
        \A c \in Decls(input) :
            (c.item.kind = "Fn" /\ ~Annotated(c.item) /\ EffectivelyEnabled(c)) =>
                LET ids == EntryIds(DeclOf(tree, c.item.ident).block)
                IN  /\ ids # <<>>
                    /\ \A i \in 1..Len(ids) : ids[i] = djb2_hash(c.item.ident)

-----------------------------------------------------------------------------
Disablers == {"never", "disable", "no"}
Enablers == {"always", "enable", "yes"}

IsSwitch(a) == a.meta /\ a.kind = "Word" /\ a.name \in Disablers \cup Enablers
IsName(a) == a.meta /\ a.kind = "NameValue" /\ a.name = "name" /\ a.lit.t = "Str"
IsId(a) == a.meta /\ a.kind = "NameValue" /\ a.name = "id" /\ a.lit.t = "Int" /\ a.lit.top = 0

Recognized(a) == IsSwitch(a) \/ IsName(a) \/ IsId(a)

SwitchAt == { i \in 1..Len(mi_items) : IsSwitch(mi_items[i]) }
NameAt == { i \in 1..Len(mi_items) : IsName(mi_items[i]) }
IdAt == { i \in 1..Len(mi_items) : IsId(mi_items[i]) }

(* C10: for a list of recognized arguments, enabled is what the last          *)
(* enable/disable keyword says (true without one), name the string of the     *)
(* last name = argument (absent without one), id the value of the last        *)
(* id = argument (absent without one).                                        *)

C10_LaterKeysWin ==
    (\A i \in 1..Len(mi_items) : Recognized(mi_items[i])) =>
        /\ ~res.panic
        /\ res.enabled = (SwitchAt = {} \/ mi_items[Max(SwitchAt)].name \in Enablers)
        /\ res.name = (IF NameAt = {} THEN None ELSE Some(mi_items[Max(NameAt)].lit.str))
        /\ res.id = (IF IdAt = {} THEN None ELSE Some(mi_items[Max(IdAt)].lit.v))

C10_Witness ==
    /\ mi_items = << NameValue("name", LitStr(<<120>>)), Word("no"), NameValue("name", LitStr(<<>>)) >>
    /\ res = [enabled |-> FALSE, name |-> Some(<<>>), id |-> None, panic |-> FALSE]

=============================================================================
